---------------------------- MODULE Spec2Model ----------------------------
(***************************************************************************)
(* A model of the core of the futures bot: the Store's signals and         *)
(* trade_executions tables (src/database/models.py), the signal            *)
(* distribution loop (src/trading/signal_processor.py), the order chain    *)
(* (src/exchanges/futures_trader.py) and the position monitoring loop      *)
(* (src/trading/auto_trader.py), with the admin emergency close            *)
(* (src/bot/admin_handlers.py).                                            *)
(*                                                                         *)
(* The Store is a database shared over the network (models.py:12-13), so   *)
(* several engine instances may work on the same rows; every Store call is *)
(* one atomic statement, and an engine may be interleaved with the others  *)
(* between two of its Store calls.                                         *)
(*                                                                         *)
(* Spec is the signal distribution side, SpecMon the position monitoring   *)
(* side with one engine, SpecRace two monitoring engines on one Store;     *)
(* LoopSpec is the distribution loop of one engine under the fairness its  *)
(* while loop gives it.                                                    *)
(***************************************************************************)
EXTENDS Integers, Sequences, FiniteSets, TLC

\* ------------------------------------------------------------------ bounds
\* Rows the signals table may hold.
MaxSignals == 2
\* Rows the trade_executions table may hold.
MaxTrades == 1

Signals == 1..MaxSignals
Users == {1, 2}
\* The exchanges table: credential ids, and the user each belongs to
\* (exchanges.user_id).
Creds == {1, 2, 3}
owner == <<1, 1, 2>>
\* Instances of SignalProcessor and of AutoTrader working on the Store.
Procs == {1, 2}
\* Last traded prices the ticker may report, and the free USDT balance an
\* account may hold.
Prices == {90, 100, 110}
Balances == {400}

NoSeq == << >>
\* SQL NULL and Python None.
NULL == 0 - 1

\* signals.leverage and exchanges.position_size_percent, the columns'
\* defaults.
leverage == 10
position_size_percent == 5

VARIABLES
    \* signals.status per row; "none" is a row not inserted yet
    sigStatus,
    \* signals.signal_type per row ("BUY" / "SELL"; "none" with no row)
    sigType,
    \* per row: expires_at <= CURRENT_TIMESTAMP
    sigElapsed,
    \* whether the Store answers; when it does not, every Store call raises
    storeUp,
    \* subscriptions.is_subscribed per user
    subscribed,
    \* exchanges.is_active and exchanges.auto_trade per credential
    isActive,
    autoTrade,
    \* per credential: whether its stored ciphertext decrypts under the key
    decryptable,
    \* SignalProcessor p: where its loop stands, the list it fetched in
    \* process_pending_signals and the roster it fetched in execute_signal
    spPc,
    pending_signals,
    subscribers,
    \* history: how many times execute_signal fanned a signal out (capped at 2)
    fanouts,
    \* history: the (signal, credential) pairs execute_trade was called for,
    \* and those for which create_market_order succeeded
    attempted,
    orders,
    \* one call of execute_trade: what it is given and what the exchange
    \* answers, the calls it makes in their order, and what it returns
    trade_input,
    exchange_calls,
    trade_result,
    \* one credential triple: as the user typed it, as it is stored, and as
    \* it is read back
    vault,
    \* the process: the environment it was started in, how far main() has
    \* come, and the master secret its ExchangeAuthManager objects were built
    \* with
    boot,
    \* one /signal command: the words the admin typed and the reply sent
    request,
    \* SignalProcessor.is_monitoring and AutoTrader.is_trading per engine, and
    \* (history) the trade whose exchange call was awaited when
    \* stop_trading_engine ran, 0 when the engine was in its sleep
    is_monitoring,
    is_trading,
    in_flight,
    \* ExchangeAuthManager.auth_sessions (per state token its expires_at, NULL
    \* when the token has no entry), int(time.time()), and (history) the
    \* tokens issued so far, the tokens a callback was accepted for, and the
    \* last callback
    oauth,
    \* the trade_executions table, a row per index, and the Store's clock
    \* (CURRENT_TIMESTAMP), which advances with every close_trade statement
    trades,
    now,
    \* history: the positions for which a close_position call has ended in
    \* its except ("Error closing position"), and the positions for which an
    \* order that closes them was placed on the exchange
    close_errors,
    closing_orders,
    \* AutoTrader e: where its loop stands and the list of open trades it
    \* fetched for the pass it is in
    atPc,
    open_trades,
    \* the last traded price on the exchange
    price,
    \* the tally the last admin emergency close reported (<<closed, failed>>)
    adminTally

sigVars == <<sigStatus, sigType, sigElapsed>>
spVars == <<spPc, pending_signals, subscribers, fanouts>>
rosterVars == <<subscribed, isActive, autoTrade, decryptable>>
chainVars == <<trade_input, exchange_calls, trade_result>>
runVars == <<is_monitoring, is_trading, in_flight>>
requestTail == <<runVars, oauth>>
bootTail == <<request, requestTail>>
vaultTail == <<boot, bootTail>>
appVars == <<vault, vaultTail>>
orderVars == <<attempted, orders, chainVars, appVars>>
posVars == <<trades, now, close_errors, closing_orders>>
monVars == <<atPc, open_trades, price, adminTally>>
vars == <<sigVars, storeUp, spVars, rosterVars, orderVars, posVars, monVars>>

\* ----------------------------------------------------------------- helpers
RECURSIVE SortedSeq(_)
\* The elements of a finite set of integers, ascending.
SortedSeq(S) ==
    IF S = {} THEN << >>
    ELSE LET m == CHOOSE x \in S : \A y \in S : x <= y
         IN  <<m>> \o SortedSeq(S \ {m})

RECURSIVE SortedSeqDesc(_)
\* The elements of a finite set of integers, descending.
SortedSeqDesc(S) ==
    IF S = {} THEN << >>
    ELSE LET m == CHOOSE x \in S : \A y \in S : x >= y
         IN  <<m>> \o SortedSeqDesc(S \ {m})

Min(a, b) == IF a < b THEN a ELSE b

\* ----------------------------------------------------------- Store: signals
\* SignalModel.create_signal: the INSERT names no status column, so the row
\* takes the column's default, 'active'.
create_signal_status == "active"

\* The next row id (cursor.lastrowid): rows are never deleted.
NextSignalId == Cardinality({s \in Signals : sigStatus[s] # "none"}) + 1

\* SignalModel.get_pending_signals's WHERE clause.
IsPendingRow(s) == sigStatus[s] = "pending" /\ ~sigElapsed[s]

\* SignalModel.get_pending_signals: rows in status 'pending' whose expires_at
\* lies ahead, ORDER BY created_at ASC (ids grow with created_at).
get_pending_signals == SortedSeq({s \in Signals : IsPendingRow(s)})

\* SignalModel.mark_signal_processed as the class defines it first:
\* UPDATE signals SET is_processed = 1 WHERE id = ?  The status column is
\* left as it is.  The later definition of the same name replaces this one.
mark_signal_processed_flag(st, id) == st

\* SignalModel.mark_signal_processed, the definition in force (the later of
\* the two in the class): UPDATE signals SET status = 'processed' WHERE id = ?
mark_signal_processed(st, id) == [st EXCEPT ![id] = "processed"]

\* The columns of a signal row the order chain and the monitor read, as the
\* /signal command stores them: entry 100, and a stop-loss and take-profit
\* ten below and above it for a BUY, ten above and below it for a SELL.
entry_price(s) == 100
stop_loss(s) == IF sigType[s] = "BUY" THEN 90 ELSE 110
take_profit(s) == IF sigType[s] = "BUY" THEN 110 ELSE 90

\* ------------------------------------------------------------ Store: roster
\* UserModel.get_subscribed_users: users JOIN subscriptions JOIN exchanges
\* WHERE is_subscribed = 1 AND is_active = 1, DISTINCT.
get_subscribed_users ==
    SortedSeq({u \in Users : subscribed[u]
                 /\ \E c \in Creds : owner[c] = u /\ isActive[c]})

\* ExchangeModel.get_user_exchanges: the user's rows with is_active = 1.
get_user_exchanges(u) == SortedSeq({c \in Creds : owner[c] = u /\ isActive[c]})

\* ------------------------------------------------------------ Store: trades
\* TradeModel.create_trade: the row stores side 'BUY' for a LONG or BUY
\* action and 'SELL' otherwise; status, pnl, current_price and closed_at take
\* the columns' defaults.
create_trade(tr, c, s, action, entry, quantity) ==
    Append(tr, [signal_id |-> s, exchange |-> c,
                side |-> IF action \in {"LONG", "BUY"} THEN "BUY" ELSE "SELL",
                quantity |-> quantity, entry_price |-> entry,
                current_price |-> NULL, pnl |-> 0,
                status |-> "open", closed_at |-> NULL])

\* TradeModel.record_trade_execution: the row stores the side it is given.
record_trade_execution_row(tr, c, s, side, entry, quantity) ==
    Append(tr, [signal_id |-> s, exchange |-> c, side |-> side,
                quantity |-> quantity, entry_price |-> entry,
                current_price |-> NULL, pnl |-> 0,
                status |-> "open", closed_at |-> NULL])

\* A get_open_trades without its WHERE clause: every row, newest first.
get_open_trades_any_status == SortedSeqDesc(DOMAIN trades)

\* TradeModel.get_open_trades and get_active_trades: WHERE status = 'open'
\* ORDER BY executed_at DESC.
get_open_trades ==
    SortedSeqDesc({i \in DOMAIN trades : trades[i].status = "open"})

\* TradeModel.update_trade_pnl: UPDATE ... SET pnl = ?, current_price = ?
\* WHERE id = ?
TradeModel_update_trade_pnl_only(tr, id, pnl, current_price) ==
    [tr EXCEPT ![id].pnl = pnl]

TradeModel_update_trade_pnl(tr, id, pnl, current_price) ==
    [tr EXCEPT ![id].pnl = pnl, ![id].current_price = current_price]

\* TradeModel.close_trade: UPDATE ... SET status = 'closed', current_price = ?,
\* pnl = ?, closed_at = CURRENT_TIMESTAMP WHERE id = ?  The reason argument
\* is bound to no placeholder, and the table has no column for it.
close_trade_stamp_only(tr, id, close_price, final_pnl, reason, stamp) ==
    [tr EXCEPT ![id].current_price = close_price,
               ![id].pnl = final_pnl, ![id].closed_at = stamp]

\* A close_trade whose UPDATE leaves closed_at out.
close_trade_status_only(tr, id, close_price, final_pnl, reason, stamp) ==
    [tr EXCEPT ![id].status = "closed", ![id].current_price = close_price,
               ![id].pnl = final_pnl]

close_trade(tr, id, close_price, final_pnl, reason, stamp) ==
    [tr EXCEPT ![id].status = "closed", ![id].current_price = close_price,
               ![id].pnl = final_pnl, ![id].closed_at = stamp]

\* What a reader of the Store finds as the reason a Position was closed for:
\* the row's close_reason column where the table has one, and no text
\* otherwise.
close_reason(t) == IF "close_reason" \in DOMAIN t THEN t.close_reason ELSE ""

\* ------------------------------------------------------------ FuturesTrader
\* FuturesTrader.get_balance: the free USDT balance, 0.0 when the call fails.
get_balance(ok, balance) == IF ok THEN balance ELSE 0

\* execute_trade's position size.
Quantity(balance, s) ==
    (balance * position_size_percent * leverage) \div (100 * entry_price(s))

\* FuturesTrader.execute_trade for credential c and signal s, given what the
\* exchange does: whether fetch_balance and create_market_order succeed and
\* the price the order reports (None for a market order).  Any exception,
\* that of decrypt_credentials included, becomes success = False.
\* set_leverage, set_stop_loss and set_take_profit swallow their errors.
execute_trade(c, s, balOk, balance, orderOk, fill) ==
    IF decryptable[c] /\ orderOk
    THEN [success |-> TRUE,
          entry_price |-> IF fill = NULL THEN entry_price(s) ELSE fill,
          quantity |-> Quantity(get_balance(balOk, balance), s)]
    ELSE [success |-> FALSE, entry_price |-> NULL, quantity |-> 0]

\* What one call of execute_trade is given: the credential and the signal
\* with the columns lines 82-106 read, and what the exchange answers to each
\* call (whether fetch_balance, set_leverage, create_market_order and the two
\* risk orders go through, and the price the order reports).
TradeInputs ==
    [c : Creds, s : {1, 2},
     sig_leverage : {10, 20}, sig_position_size_percent : {5, 10},
     cred_leverage : {5, 10}, cred_position_size_percent : {2, 5},
     has_stop_loss : BOOLEAN, has_take_profit : BOOLEAN,
     balance_ok : BOOLEAN, leverage_ok : BOOLEAN, order_ok : BOOLEAN,
     stop_loss_ok : BOOLEAN, take_profit_ok : BOOLEAN,
     fill : {NULL, 101}]

\* Lines 85-86: position_value = balance * (position_size_percent / 100) *
\* leverage; quantity = position_value / entry_price.
position_quantity(balance, pct, lev, entry) ==
    (balance * pct * lev) \div (100 * entry)

\* Line 82: exchange_config.get('position_size_percent', 5), the
\* credential's column.  The signal's column is not read.
execute_trade_position_size_percent(x) == x.cred_position_size_percent

\* Line 83: signal.get('leverage', exchange_config.get('leverage', 10)).
\* Every dictionary of get_pending_signals has the key 'leverage', so the
\* default, the credential's column, is never taken.
execute_trade_leverage(x) == x.sig_leverage

\* Lines 81-86: the amount of the market order.
execute_trade_quantity(x) ==
    position_quantity(get_balance(x.balance_ok, CHOOSE b \in Balances : TRUE),
                      execute_trade_position_size_percent(x),
                      execute_trade_leverage(x), entry_price(x.s))

\* The calls of execute_trade in an order other than the code's: the market
\* order before the leverage.
execute_trade_calls_order_first(x) ==
    <<"decrypt_credentials", "fetch_balance", "create_market_order", "set_leverage">>

\* The calls execute_trade makes, in their order.  decrypt_credentials
\* raising ends it before any exchange call; create_market_order raising
\* ends it before the risk orders; get_balance, set_leverage, set_stop_loss
\* and set_take_profit catch their own errors, so the call after each is
\* made whatever the exchange answered.
execute_trade_calls(x) ==
    IF ~decryptable[x.c] THEN <<"decrypt_credentials">>
    ELSE <<"decrypt_credentials", "fetch_balance", "set_leverage", "create_market_order">>
         \o (IF x.order_ok /\ x.has_stop_loss THEN <<"set_stop_loss">> ELSE << >>)
         \o (IF x.order_ok /\ x.has_take_profit THEN <<"set_take_profit">> ELSE << >>)

\* An execute_trade that fails when a risk order or the leverage fails.
execute_trade_strict(x) ==
    IF /\ decryptable[x.c] /\ x.order_ok /\ x.leverage_ok
       /\ (x.has_stop_loss => x.stop_loss_ok)
       /\ (x.has_take_profit => x.take_profit_ok)
    THEN [success |-> TRUE,
          entry_price |-> IF x.fill = NULL THEN entry_price(x.s) ELSE x.fill,
          quantity |-> execute_trade_quantity(x)]
    ELSE [success |-> FALSE, entry_price |-> NULL, quantity |-> 0]

\* What execute_trade returns (lines 108-121): success with the order's
\* price (the signal's entry_price when the order reports none) and the
\* quantity, or success False after any exception.
execute_trade_for(x) ==
    IF decryptable[x.c] /\ x.order_ok
    THEN [success |-> TRUE,
          entry_price |-> IF x.fill = NULL THEN entry_price(x.s) ELSE x.fill,
          quantity |-> execute_trade_quantity(x)]
    ELSE [success |-> FALSE, entry_price |-> NULL, quantity |-> 0]

\* FuturesTrader.close_position: places no order and reports success.
FuturesTrader_close_position == [success |-> TRUE, close_price |-> 0, pnl |-> 0]

\* FuturesTrader.get_current_price: the ticker's last price, None on error.
get_current_price(ok) == IF ok THEN price ELSE NULL

\* -------------------------------------------------- OAuth state tokens
\* The state tokens a callback can arrive with: those _generate_state_token
\* can hand out, and one it never hands out.
IssuableTokens == {"t1", "t2"}
Tokens == IssuableTokens \cup {"forged"}

\* The lifetime of a session, 600 seconds in the code, in ticks of the
\* clock; and the tick at which the clock stops.
SessionTtl == 2
MaxClock == 4

\* No session, no token issued, no callback yet.
NoOAuth ==
    [auth_sessions |-> [t \in Tokens |-> NULL], time |-> 0, issued |-> {},
     used |-> {}, callback |-> NoSeq]

\* ------------------------------------------------------------ initial state
InitRoster(dec, auto) ==
    /\ isActive = [c \in Creds |-> TRUE]
    /\ autoTrade = auto
    /\ decryptable = dec

\* Config.ENCRYPTION_KEY's default, used when the environment has none.
DefaultKey == "your-secret-key-here"

\* A process whose main() has passed every step of its start-up, in an
\* environment that has all three settings.
Booted ==
    [BOT_TOKEN |-> TRUE, ADMIN_ID |-> TRUE, ENCRYPTION_KEY |-> TRUE,
     pc |-> "running", key |-> "k1"]

InitEnginesReq(table, input, triple, process, command) ==
    /\ storeUp = TRUE
    /\ trade_input = input
    /\ exchange_calls = NoSeq
    /\ trade_result = NoSeq
    /\ vault = triple
    /\ boot = process
    /\ request = command
    /\ is_monitoring = [p \in Procs |-> TRUE]
    /\ is_trading = [p \in Procs |-> TRUE]
    /\ in_flight = [p \in Procs |-> 0]
    /\ oauth = NoOAuth
    /\ spPc = [p \in Procs |-> "sleep"]
    /\ pending_signals = [p \in Procs |-> NoSeq]
    /\ subscribers = [p \in Procs |-> NoSeq]
    /\ fanouts = [s \in Signals |-> 0]
    /\ attempted = {}
    /\ orders = {}
    /\ trades = table
    /\ now = 0
    /\ close_errors = {}
    /\ closing_orders = {}
    /\ atPc = [p \in Procs |-> "sleep"]
    /\ open_trades = [p \in Procs |-> NoSeq]
    /\ price = 100
    /\ adminTally = << >>

InitEnginesBoot(table, input, triple, process) ==
    InitEnginesReq(table, input, triple, process, NoSeq)

InitEnginesFor(table, input, triple) ==
    InitEnginesBoot(table, input, triple, Booted)

InitEnginesWith(table) == InitEnginesFor(table, NoSeq, NoSeq)

InitEngines == InitEnginesWith(<< >>)

\* The tables as the distribution engines find them.  Rows in status
\* 'pending' are written by no statement of the repository; they are inserted
\* into the shared Store from outside, and the first rows of the table may be
\* such rows.
Init ==
    /\ \E k \in 0..MaxSignals :
         sigStatus = [s \in Signals |-> IF s <= k THEN "pending" ELSE "none"]
    /\ sigType = [s \in Signals |-> IF sigStatus[s] = "none" THEN "none" ELSE "BUY"]
    /\ sigElapsed = [s \in Signals |-> FALSE]
    /\ subscribed \in [Users -> BOOLEAN]
    /\ InitRoster([c \in Creds |-> c # 1], [c \in Creds |-> c # 2])
    /\ InitEngines

\* ------------------------------------------------------------- environment
\* AdminHandlers.signal_command -> SignalModel.create_signal.
create_signal(action) ==
    /\ storeUp
    /\ NextSignalId <= MaxSignals
    /\ sigStatus' = [sigStatus EXCEPT ![NextSignalId] = create_signal_status]
    /\ sigType' = [sigType EXCEPT ![NextSignalId] = action]
    /\ UNCHANGED <<sigElapsed, storeUp, spVars, rosterVars, orderVars, posVars, monVars>>

\* Time passes a row's expires_at.
Elapse(s) ==
    /\ sigStatus[s] # "none"
    /\ ~sigElapsed[s]
    /\ sigElapsed' = [sigElapsed EXCEPT ![s] = TRUE]
    /\ UNCHANGED <<sigStatus, sigType, storeUp, spVars, rosterVars, orderVars, posVars, monVars>>

\* The Store becomes unreachable, or reachable again.
StoreFlip ==
    /\ storeUp' = ~storeUp
    /\ UNCHANGED <<sigVars, spVars, rosterVars, orderVars, posVars, monVars>>

\* The market moves.
PriceMove(p) ==
    /\ p # price
    /\ price' = p
    /\ UNCHANGED <<sigVars, storeUp, spVars, rosterVars, orderVars, posVars,
                   atPc, open_trades, adminTally>>

\* -------------------------------------------------------- SignalProcessor
\* Where an exception leaves a loop.  The except of start_monitoring (line
\* 29) and of start_trading_engine (line 32) are outside the while: an
\* exception that reaches them ends the loop.  The except of
\* process_pending_signals (line 48) and of monitor_positions (line 51) are
\* inside the call the while makes: the loop goes on to its next statement,
\* the sleep for the first, check_stop_losses for the second.
start_monitoring_except == "stopped"

process_pending_signals_except == "sleep"

monitor_positions_except == "monitor"

\* process_pending_signals, its first statement: fetch the pending list.
\* With the Store down get_pending_signals raises, the except of line 48
\* logs, and the cycle ends where it began.
process_pending_signals(p) ==
    /\ spPc[p] = "sleep"
    /\ is_monitoring[p]
    /\ IF storeUp
       THEN /\ pending_signals' = [pending_signals EXCEPT ![p] = get_pending_signals]
            /\ spPc' = [spPc EXCEPT ![p] = "loop"]
       ELSE /\ spPc' = [spPc EXCEPT ![p] = process_pending_signals_except]
            /\ UNCHANGED pending_signals
    /\ UNCHANGED <<subscribers, fanouts>>
    /\ UNCHANGED <<sigVars, storeUp, rosterVars, orderVars, posVars, monVars>>

\* The for loop of process_pending_signals is exhausted: back to the sleep.
end_cycle(p) ==
    /\ spPc[p] = "loop"
    /\ pending_signals[p] = NoSeq
    /\ spPc' = [spPc EXCEPT ![p] = "sleep"]
    /\ UNCHANGED <<pending_signals, subscribers, fanouts>>
    /\ UNCHANGED <<sigVars, storeUp, rosterVars, orderVars, posVars, monVars>>

\* execute_signal, up to its for loop: fetch the roster.  No statement
\* touches the signal's row before the fan-out.  With the Store down
\* get_subscribed_users raises into the except of line 68 and the signal is
\* left as it is.
execute_signal(p) ==
    /\ spPc[p] = "loop"
    /\ pending_signals[p] # NoSeq
    /\ IF storeUp
       THEN /\ subscribers' = [subscribers EXCEPT ![p] = get_subscribed_users]
            /\ spPc' = [spPc EXCEPT ![p] = "fanout"]
            /\ fanouts' = [fanouts EXCEPT ![Head(pending_signals[p])] = Min(@ + 1, 2)]
            /\ UNCHANGED pending_signals
       ELSE /\ pending_signals' = [pending_signals EXCEPT ![p] = Tail(@)]
            /\ UNCHANGED <<subscribers, spPc, fanouts>>
    /\ UNCHANGED <<sigVars, storeUp, rosterVars, orderVars, posVars, monVars>>

\* FuturesTrader.execute_signal_trade as execute_signal calls it for one
\* user.  Its first statement reads self.auth_manager.db, an attribute
\* ExchangeAuthManager never sets (auth_manager.py:21-24): AttributeError,
\* caught by the except of line 226.  The user's credentials are not read and
\* execute_trade is not called.
FuturesTrader_execute_signal_trade(p) ==
    /\ spPc[p] = "fanout"
    /\ subscribers[p] # NoSeq
    /\ subscribers' = [subscribers EXCEPT ![p] = Tail(@)]
    /\ UNCHANGED <<spPc, pending_signals, fanouts>>
    /\ UNCHANGED <<sigVars, storeUp, rosterVars, orderVars, posVars, monVars>>

\* execute_signal after its for loop: mark_signal_processed.  With the Store
\* down the UPDATE raises into the except of line 68.
finish_signal(p) ==
    /\ spPc[p] = "fanout"
    /\ subscribers[p] = NoSeq
    /\ sigStatus' = IF storeUp
                    THEN mark_signal_processed(sigStatus, Head(pending_signals[p]))
                    ELSE sigStatus
    /\ pending_signals' = [pending_signals EXCEPT ![p] = Tail(@)]
    /\ spPc' = [spPc EXCEPT ![p] = "loop"]
    /\ UNCHANGED <<sigType, sigElapsed, subscribers, fanouts>>
    /\ UNCHANGED <<storeUp, rosterVars, orderVars, posVars, monVars>>

SignalProcessorStep(p) ==
    \/ process_pending_signals(p)
    \/ end_cycle(p)
    \/ execute_signal(p)
    \/ FuturesTrader_execute_signal_trade(p)
    \/ finish_signal(p)

Next ==
    \/ \E a \in {"BUY", "SELL"} : create_signal(a)
    \/ \E s \in Signals : Elapse(s)
    \/ StoreFlip
    \/ \E p \in Procs : SignalProcessorStep(p)

Spec == Init /\ [][Next]_vars

\* One distribution engine, as app.py starts it, on a Store that answers.
\* start_monitoring runs process_pending_signals again after every one-second
\* sleep, so the engine takes a step whenever it can.
LoopNext ==
    \/ \E a \in {"BUY", "SELL"} : create_signal(a)
    \/ \E s \in Signals : Elapse(s)
    \/ SignalProcessorStep(1)

LoopSpec == Init /\ [][LoopNext]_vars /\ WF_vars(SignalProcessorStep(1))

\* ------------------------------------------------------------------ main()
\* Config.validate (settings.py:99-111): BOT_TOKEN and ADMIN_ID are required,
\* nothing else is looked at.  A ValueError ends main() in its except.
Config_validate ==
    /\ boot.pc = "start"
    /\ boot' = [boot EXCEPT !.pc = IF boot.BOT_TOKEN /\ boot.ADMIN_ID
                                    THEN "validated" ELSE "failed"]
    /\ UNCHANGED <<sigVars, storeUp, spVars, rosterVars, attempted, orders, chainVars,
                   vault, bootTail, posVars, monVars>>

\* app.py:35-38: the handlers and both engines are constructed; each builds
\* its ExchangeAuthManager from Config.ENCRYPTION_KEY, which is the
\* environment's value or, without one, the default of settings.py:12.
construct_engines ==
    /\ boot.pc = "validated"
    /\ boot' = [boot EXCEPT !.pc = "constructed",
                            !.key = IF boot.ENCRYPTION_KEY THEN "k1" ELSE DefaultKey]
    /\ UNCHANGED <<sigVars, storeUp, spVars, rosterVars, attempted, orders, chainVars,
                   vault, bootTail, posVars, monVars>>

\* app.py:77-78: both loops are started as tasks.
start_background_tasks ==
    /\ boot.pc = "constructed"
    /\ boot' = [boot EXCEPT !.pc = "running"]
    /\ UNCHANGED <<sigVars, storeUp, spVars, rosterVars, attempted, orders, chainVars,
                   vault, bootTail, posVars, monVars>>

\* The process from its start in any environment; the distribution loop
\* takes steps once it has been started.
InitBoot ==
    /\ \E k \in 0..MaxSignals :
         sigStatus = [s \in Signals |-> IF s <= k THEN "pending" ELSE "none"]
    /\ sigType = [s \in Signals |-> IF sigStatus[s] = "none" THEN "none" ELSE "BUY"]
    /\ sigElapsed = [s \in Signals |-> FALSE]
    /\ subscribed \in [Users -> BOOLEAN]
    /\ InitRoster([c \in Creds |-> c # 1], [c \in Creds |-> c # 2])
    /\ \E t, a, k \in BOOLEAN :
         InitEnginesBoot(<< >>, NoSeq, NoSeq,
                         [BOT_TOKEN |-> t, ADMIN_ID |-> a, ENCRYPTION_KEY |-> k,
                          pc |-> "start", key |-> ""])

NextBoot ==
    \/ Config_validate
    \/ construct_engines
    \/ start_background_tasks
    \/ boot.pc = "running" /\ SignalProcessorStep(1)

SpecBoot == InitBoot /\ [][NextBoot]_vars

\* ------------------------------------------------------------ AdminHandlers
\* Config.MAX_LEVERAGE and Config.MAX_POSITION_SIZE_PERCENT.
MAX_LEVERAGE == 50
MAX_POSITION_SIZE_PERCENT == 10

\* The words of a /signal command: ACTION, the three prices, and the
\* optional LEVERAGE and SIZE ("" when the word is not there; SIZE can only
\* follow a LEVERAGE).
SignalArgs ==
    {a \in [action : {"buy", "BUY", "SELL", "LONG"},
            entry : {"100", "0", "-5", "abc"},
            sl : {"90", "0", "-5", "abc"},
            tp : {"110", "0", "abc"},
            leverage : {"", "0", "1", "50", "51"},
            size : {"", "0", "5", "10", "11"}] :
        a.leverage = "" => a.size = ""}

\* The words int() and float() accept, and the number each stands for; any
\* other word raises ValueError.
is_number(w) == w \in {"-5", "0", "1", "5", "10", "11", "50", "51", "90", "100", "110"}
to_number(w) ==
    CASE w = "-5" -> 0 - 5 [] w = "0" -> 0 [] w = "1" -> 1 [] w = "5" -> 5
      [] w = "10" -> 10 [] w = "11" -> 11 [] w = "50" -> 50 [] w = "51" -> 51
      [] w = "90" -> 90 [] w = "100" -> 100 [] w = "110" -> 110

\* str.upper() on the words of SignalArgs.
upper(w) == IF w = "buy" THEN "BUY" ELSE w

\* Lines 543-544: the optional words, with their defaults.
signal_leverage(a) == IF a.leverage = "" THEN 10 ELSE to_number(a.leverage)
signal_size(a) == IF a.size = "" THEN 5 ELSE to_number(a.size)

\* signal_command's checks (lines 539-558), in their order: the conversions
\* of 541-544 (ValueError, caught at 603), the action, the leverage, the
\* size.  The prices are converted and not looked at again.
signal_command_reply(a) ==
    IF \/ ~is_number(a.entry) \/ ~is_number(a.sl) \/ ~is_number(a.tp)
       \/ (a.leverage # "" /\ ~is_number(a.leverage))
       \/ (a.size # "" /\ ~is_number(a.size))
    THEN "Invalid number format"
    ELSE IF upper(a.action) \notin {"BUY", "SELL"} THEN "Action must be BUY or SELL"
    ELSE IF signal_leverage(a) < 1 \/ signal_leverage(a) > MAX_LEVERAGE
         THEN "Leverage must be between"
    ELSE IF signal_size(a) < 1 \/ signal_size(a) > MAX_POSITION_SIZE_PERCENT
         THEN "Size must be between"
    ELSE "Signal sent"

\* AdminHandlers.signal_command for the admin: a command that passes the
\* checks is stored with create_signal, with the numbers as converted.
signal_command ==
    /\ storeUp
    /\ request \in [args : SignalArgs, reply : {""}, row : {NoSeq}]
    /\ NextSignalId <= MaxSignals
    /\ LET a == request.args
           reply == signal_command_reply(a)
       IN  IF reply = "Signal sent"
           THEN /\ sigStatus' = [sigStatus EXCEPT ![NextSignalId] = create_signal_status]
                /\ sigType' = [sigType EXCEPT ![NextSignalId] = upper(a.action)]
                /\ request' = [request EXCEPT
                                  !.reply = reply,
                                  !.row = <<NextSignalId, to_number(a.entry),
                                            to_number(a.sl), to_number(a.tp),
                                            signal_leverage(a), signal_size(a)>>]
           ELSE /\ request' = [request EXCEPT !.reply = reply]
                /\ UNCHANGED <<sigStatus, sigType>>
    /\ UNCHANGED <<sigElapsed, storeUp, spVars, rosterVars, attempted, orders, chainVars,
                   vault, boot, requestTail, posVars, monVars>>

\* The /signal command on its own: every command of SignalArgs, typed by
\* the admin into a running process with an empty signals table.
InitSignal ==
    /\ sigStatus = [s \in Signals |-> "none"]
    /\ sigType = [s \in Signals |-> "none"]
    /\ sigElapsed = [s \in Signals |-> FALSE]
    /\ subscribed = [u \in Users |-> TRUE]
    /\ InitRoster([c \in Creds |-> TRUE], [c \in Creds |-> TRUE])
    /\ \E a \in SignalArgs :
          InitEnginesReq(<< >>, NoSeq, NoSeq, Booted,
                         [args |-> a, reply |-> "", row |-> NoSeq])

NextSignal == signal_command

SpecSignal == InitSignal /\ [][NextSignal]_vars

\* ------------------------------------------------- AutoTrader: order chain
RECURSIVE RunExchanges(_, _, _, _, _)
\* The for loop of AutoTrader.execute_signal_trade over the user's active
\* credentials: one without auto_trade is skipped; for the others
\* execute_trade runs and, when it succeeds, create_trade stores the position.
\* out[c] says whether the exchange accepts the order placed with
\* credential c.
\* acc carries the trades table and the two histories.
RunExchanges(list, s, balance, out, acc) ==
    IF list = NoSeq THEN acc
    ELSE LET c == Head(list)
             r == execute_trade(c, s, TRUE, balance, out[c], NULL)
         IN  IF ~autoTrade[c]
             THEN RunExchanges(Tail(list), s, balance, out, acc)
             ELSE RunExchanges(Tail(list), s, balance, out,
                    [attempted |-> acc.attempted \cup {<<s, c>>},
                     orders |-> IF r.success THEN acc.orders \cup {<<s, c>>}
                                ELSE acc.orders,
                     trades |-> IF r.success
                                THEN create_trade(acc.trades, c, s, sigType[s],
                                                  r.entry_price, r.quantity)
                                ELSE acc.trades])

\* What the exchange answers to create_market_order, per credential: it
\* accepts the order.
OrderOutcomes == {[c \in Creds |-> TRUE]}

\* AutoTrader.execute_signal_trade(user, signal).  With the Store down
\* get_user_exchanges raises into the except of line 181.
AutoTrader_execute_signal_trade(u, s) ==
    /\ storeUp
    /\ sigStatus[s] = "pending"
    /\ \E balance \in Balances, out \in OrderOutcomes :
         LET r == RunExchanges(get_user_exchanges(u), s, balance, out,
                     [attempted |-> attempted, orders |-> orders, trades |-> trades])
         IN  /\ Len(r.trades) <= MaxTrades
             /\ attempted' = r.attempted
             /\ orders' = r.orders
             /\ UNCHANGED <<chainVars, appVars>>
             /\ trades' = r.trades
    /\ UNCHANGED <<sigVars, storeUp, spVars, rosterVars, monVars>>
    /\ UNCHANGED <<now, close_errors, closing_orders>>

\* TradeModel.record_trade_execution(user, signal, exchange, side, ...): a
\* position row written with the side its caller names.
record_trade_execution(c, s, side) ==
    /\ storeUp
    /\ sigStatus[s] # "none"
    /\ Len(trades) < MaxTrades
    /\ \E balance \in Balances :
         trades' = record_trade_execution_row(trades, c, s, side,
                                              entry_price(s), Quantity(balance, s))
    /\ UNCHANGED <<sigVars, storeUp, spVars, rosterVars, orderVars, monVars>>
    /\ UNCHANGED <<now, close_errors, closing_orders>>

\* ------------------------------------------------- AutoTrader: monitoring
\* AutoTrader.update_trade_pnl's arithmetic: the long formula for side
\* 'LONG' (upper-cased), the short formula for every other side.
unrealized_pnl(t, current_price) ==
    IF t.side = "LONG"
    THEN (current_price - t.entry_price) * t.quantity
    ELSE (t.entry_price - current_price) * t.quantity

\* check_stop_losses' and check_take_profits' tests.
stop_loss_hit(t, current_price) ==
    \/ t.side = "LONG" /\ current_price <= stop_loss(t.signal_id)
    \/ t.side = "SHORT" /\ current_price >= stop_loss(t.signal_id)

take_profit_hit(t, current_price) ==
    \/ t.side = "LONG" /\ current_price >= take_profit(t.signal_id)
    \/ t.side = "SHORT" /\ current_price <= take_profit(t.signal_id)

\* AutoTrader.close_position(trade, reason): FuturesTrader.close_position,
\* then TradeModel.close_trade with what it reported.  With the Store down
\* the UPDATE raises into the except of line 146, which logs the error.  An
\* order counts as placed when the adapter's result names one.
AutoTrader_close_position(id, reason) ==
    LET r == FuturesTrader_close_position
    IN  /\ closing_orders' = IF "order_id" \in DOMAIN r
                              THEN closing_orders \cup {id} ELSE closing_orders
        /\ IF r.success /\ storeUp
           THEN /\ trades' = close_trade(trades, id, r.close_price, r.pnl, reason, now + 1)
                /\ now' = now + 1
                /\ UNCHANGED close_errors
           ELSE /\ close_errors' = IF r.success THEN close_errors \cup {id}
                                  ELSE close_errors
                /\ UNCHANGED <<trades, now>>

\* One pass of start_trading_engine begins: monitor_positions fetches the
\* open trades.  With the Store down the fetch raises and the pass has
\* nothing to do.
monitor_positions(e) ==
    /\ atPc[e] = "sleep"
    /\ is_trading[e]
    /\ atPc' = [atPc EXCEPT ![e] = IF storeUp THEN "monitor" ELSE monitor_positions_except]
    /\ open_trades' = [open_trades EXCEPT ![e] = IF storeUp THEN get_open_trades ELSE NoSeq]
    /\ UNCHANGED <<price, adminTally>>
    /\ UNCHANGED <<sigVars, storeUp, spVars, rosterVars, orderVars, posVars>>

\* A for loop that a failed ticker fetch ends: the price is written when
\* there is one, and the rest of the list is dropped when there is none.
RepriceStep_abort(e, tick) ==
    /\ atPc[e] = "monitor"
    /\ open_trades[e] # NoSeq
    /\ LET id == Head(open_trades[e])
       IN  /\ trades' = IF tick /\ storeUp
                         THEN TradeModel_update_trade_pnl(trades, id,
                                  unrealized_pnl(trades[id], price), price)
                         ELSE trades
    /\ open_trades' = [open_trades EXCEPT ![e] = IF tick THEN Tail(@) ELSE NoSeq]
    /\ UNCHANGED <<atPc, price, adminTally>>
    /\ UNCHANGED <<sigVars, storeUp, spVars, rosterVars, orderVars>>
    /\ UNCHANGED <<now, close_errors, closing_orders>>

\* monitor_positions' for loop, one trade: update_trade_pnl reads the price
\* and, when there is one, writes pnl and current_price to the row.  tick
\* says whether the ticker fetch returns a price.
RepriceStep(e, tick) ==
    /\ atPc[e] = "monitor"
    /\ open_trades[e] # NoSeq
    /\ LET id == Head(open_trades[e])
           current_price == get_current_price(tick)
       IN  trades' = IF current_price # NULL /\ current_price # 0 /\ storeUp
                     THEN TradeModel_update_trade_pnl(trades, id,
                              unrealized_pnl(trades[id], current_price), current_price)
                     ELSE trades
    /\ open_trades' = [open_trades EXCEPT ![e] = Tail(@)]
    /\ UNCHANGED <<atPc, price, adminTally>>
    /\ UNCHANGED <<sigVars, storeUp, spVars, rosterVars, orderVars>>
    /\ UNCHANGED <<now, close_errors, closing_orders>>

update_trade_pnl(e) == \E tick \in BOOLEAN : RepriceStep(e, tick)

\* check_stop_losses begins: it fetches the open trades anew.
check_stop_losses(e) ==
    /\ atPc[e] = "monitor"
    /\ open_trades[e] = NoSeq
    /\ atPc' = [atPc EXCEPT ![e] = "stop_loss"]
    /\ open_trades' = [open_trades EXCEPT ![e] = IF storeUp THEN get_open_trades ELSE NoSeq]
    /\ UNCHANGED <<price, adminTally>>
    /\ UNCHANGED <<sigVars, storeUp, spVars, rosterVars, orderVars, posVars>>

\* check_stop_losses' for loop, one trade.  tick says whether the ticker
\* fetch returns a price.
StopLossStep(e, tick) ==
    /\ atPc[e] = "stop_loss"
    /\ open_trades[e] # NoSeq
    /\ LET id == Head(open_trades[e])
           current_price == get_current_price(tick)
       IN  IF current_price # NULL /\ current_price # 0
              /\ stop_loss_hit(trades[id], current_price)
           THEN AutoTrader_close_position(id, "STOP_LOSS")
           ELSE UNCHANGED posVars
    /\ open_trades' = [open_trades EXCEPT ![e] = Tail(@)]
    /\ UNCHANGED <<atPc, price, adminTally>>
    /\ UNCHANGED <<sigVars, storeUp, spVars, rosterVars, orderVars>>

stop_loss_step(e) == \E tick \in BOOLEAN : StopLossStep(e, tick)

\* check_take_profits begins: it fetches the open trades anew.
check_take_profits(e) ==
    /\ atPc[e] = "stop_loss"
    /\ open_trades[e] = NoSeq
    /\ atPc' = [atPc EXCEPT ![e] = "take_profit"]
    /\ open_trades' = [open_trades EXCEPT ![e] = IF storeUp THEN get_open_trades ELSE NoSeq]
    /\ UNCHANGED <<price, adminTally>>
    /\ UNCHANGED <<sigVars, storeUp, spVars, rosterVars, orderVars, posVars>>

\* check_take_profits' for loop, one trade.  tick says whether the ticker
\* fetch returns a price.
TakeProfitStep(e, tick) ==
    /\ atPc[e] = "take_profit"
    /\ open_trades[e] # NoSeq
    /\ LET id == Head(open_trades[e])
           current_price == get_current_price(tick)
       IN  IF current_price # NULL /\ current_price # 0
              /\ take_profit_hit(trades[id], current_price)
           THEN AutoTrader_close_position(id, "TAKE_PROFIT")
           ELSE UNCHANGED posVars
    /\ open_trades' = [open_trades EXCEPT ![e] = Tail(@)]
    /\ UNCHANGED <<atPc, price, adminTally>>
    /\ UNCHANGED <<sigVars, storeUp, spVars, rosterVars, orderVars>>

take_profit_step(e) == \E tick \in BOOLEAN : TakeProfitStep(e, tick)

\* The pass is over: the engine sleeps five seconds.
end_pass(e) ==
    /\ atPc[e] = "take_profit"
    /\ open_trades[e] = NoSeq
    /\ atPc' = [atPc EXCEPT ![e] = "sleep"]
    /\ UNCHANGED <<open_trades, price, adminTally>>
    /\ UNCHANGED <<sigVars, storeUp, spVars, rosterVars, orderVars, posVars>>

AutoTraderStep(e) ==
    \/ monitor_positions(e)
    \/ update_trade_pnl(e)
    \/ check_stop_losses(e)
    \/ stop_loss_step(e)
    \/ check_take_profits(e)
    \/ take_profit_step(e)
    \/ end_pass(e)

\* --------------------------------------------------------------- OAuth flow
\* _generate_state_token: a token with a fresh nonce, stored in
\* auth_sessions with expires_at ten minutes ahead.
generate_state_token(t) ==
    /\ t \in IssuableTokens \ oauth.issued
    /\ oauth' = [oauth EXCEPT !.auth_sessions[t] = oauth.time + SessionTtl,
                              !.issued = @ \cup {t}]
    /\ UNCHANGED <<sigVars, storeUp, spVars, rosterVars, attempted, orders, chainVars,
                   vault, boot, request, runVars, posVars, monVars>>

\* A second of int(time.time()) passes.
clock_tick ==
    /\ oauth.time < MaxClock
    /\ oauth' = [oauth EXCEPT !.time = @ + 1]
    /\ UNCHANGED <<sigVars, storeUp, spVars, rosterVars, attempted, orders, chainVars,
                   vault, boot, request, runVars, posVars, monVars>>

\* handle_oauth_callback(code, state): a state without an entry raises
\* ValueError; any other is accepted, the code is exchanged (which succeeds
\* or raises), and the finally of line 155 removes the entry.  expires_at
\* is not read.
handle_oauth_callback(state) ==
    /\ IF oauth.auth_sessions[state] = NULL
       THEN oauth' = [oauth EXCEPT
                        !.callback = [state |-> state, accepted |-> FALSE,
                                      at |-> oauth.time, expires_at |-> NULL,
                                      used_before |-> state \in oauth.used]]
       ELSE oauth' = [oauth EXCEPT
                        !.auth_sessions[state] = NULL,
                        !.used = @ \cup {state},
                        !.callback = [state |-> state, accepted |-> TRUE,
                                      at |-> oauth.time,
                                      expires_at |-> oauth.auth_sessions[state],
                                      used_before |-> state \in oauth.used]]
    /\ UNCHANGED <<sigVars, storeUp, spVars, rosterVars, attempted, orders, chainVars,
                   vault, boot, request, runVars, posVars, monVars>>

\* The OAuth sessions of one ExchangeAuthManager on their own.
InitOAuth ==
    /\ sigStatus = [s \in Signals |-> "none"]
    /\ sigType = [s \in Signals |-> "none"]
    /\ sigElapsed = [s \in Signals |-> FALSE]
    /\ subscribed = [u \in Users |-> TRUE]
    /\ InitRoster([c \in Creds |-> TRUE], [c \in Creds |-> TRUE])
    /\ InitEngines

NextOAuth ==
    \/ \E t \in Tokens : generate_state_token(t)
    \/ clock_tick
    \/ \E t \in Tokens : handle_oauth_callback(t)

SpecOAuth == InitOAuth /\ [][NextOAuth]_vars

\* ------------------------------------------------------------------ shutdown
\* SignalProcessor.stop_monitoring.  It runs on the event loop the engine
\* runs on, so it runs while the engine is suspended: a cycle of the
\* distribution loop has no await that suspends (the hand-over raises at its
\* first statement), which leaves the sleep of line 27.
stop_monitoring(p) ==
    /\ is_monitoring[p]
    /\ spPc[p] = "sleep"
    /\ is_monitoring' = [is_monitoring EXCEPT ![p] = FALSE]
    /\ UNCHANGED <<is_trading, in_flight, oauth>>
    /\ UNCHANGED <<sigVars, storeUp, spVars, rosterVars, attempted, orders, chainVars,
                   vault, boot, request, posVars, monVars>>

\* AutoTrader.stop_trading_engine.  The monitoring engine is suspended in
\* its sleep (line 30) or in the ticker fetch for the trade at the head of
\* the list it is iterating.
stop_trading_engine(e) ==
    /\ is_trading[e]
    /\ \/ atPc[e] = "sleep"
       \/ atPc[e] \in {"monitor", "stop_loss", "take_profit"} /\ open_trades[e] # NoSeq
    /\ is_trading' = [is_trading EXCEPT ![e] = FALSE]
    /\ in_flight' = [in_flight EXCEPT ![e] = IF atPc[e] = "sleep" THEN 0
                                              ELSE Head(open_trades[e])]
    /\ UNCHANGED <<is_monitoring, oauth>>
    /\ UNCHANGED <<sigVars, storeUp, spVars, rosterVars, attempted, orders, chainVars,
                   vault, boot, request, posVars, monVars>>

\* start_monitoring's while finds is_monitoring False: the function returns.
start_monitoring_return(p) ==
    /\ spPc[p] = "sleep"
    /\ ~is_monitoring[p]
    /\ spPc' = [spPc EXCEPT ![p] = "returned"]
    /\ UNCHANGED <<pending_signals, subscribers, fanouts>>
    /\ UNCHANGED <<sigVars, storeUp, rosterVars, orderVars, posVars, monVars>>

\* start_trading_engine's while finds is_trading False: the function
\* returns.
start_trading_engine_return(e) ==
    /\ atPc[e] = "sleep"
    /\ ~is_trading[e]
    /\ atPc' = [atPc EXCEPT ![e] = "returned"]
    /\ UNCHANGED <<open_trades, price, adminTally>>
    /\ UNCHANGED <<sigVars, storeUp, spVars, rosterVars, orderVars, posVars>>

\* ------------------------------------------------------ admin emergency close
\* The call AdminHandlers._confirm_close_all_positions makes for one trade,
\* close_trade(trade['id'], 'ADMIN_EMERGENCY_CLOSE'): close_trade takes four
\* arguments, so the call raises TypeError before any statement of close_trade
\* runs, and the row is left as it is.
admin_close_trade(tr, id) == [raised |-> TRUE, trades |-> tr]

RECURSIVE CloseAll(_, _)
\* The for loop of _confirm_close_all_positions: closed_count and
\* failed_count after the trades of the list, and the table.
CloseAll(list, acc) ==
    IF list = NoSeq THEN acc
    ELSE LET r == admin_close_trade(acc.trades, Head(list))
         IN  CloseAll(Tail(list),
                      [closed |-> IF r.raised THEN acc.closed ELSE acc.closed + 1,
                       failed |-> IF r.raised THEN acc.failed + 1 ELSE acc.failed,
                       trades |-> r.trades])

\* AdminHandlers._confirm_close_all_positions.  With no open trade it reports
\* that there is none; with the Store down get_active_trades raises into the
\* except of line 375.
confirm_close_all_positions ==
    /\ storeUp
    /\ get_open_trades # NoSeq
    /\ LET r == CloseAll(get_open_trades, [closed |-> 0, failed |-> 0, trades |-> trades])
       IN  /\ trades' = r.trades
           /\ adminTally' = <<r.closed, r.failed>>
    /\ UNCHANGED <<atPc, open_trades, price, now, close_errors, closing_orders>>
    /\ UNCHANGED <<sigVars, storeUp, spVars, rosterVars, orderVars>>

\* ---------------------------------------------------------- monitoring side
\* The tables as the monitoring engines find them: a BUY signal and a SELL
\* signal stored, every user subscribed, every credential with auto_trade,
\* and no position yet.
InitMon ==
    /\ sigStatus = [s \in Signals |-> IF s \in {1, 2} THEN "pending" ELSE "none"]
    /\ sigType = [s \in Signals |-> IF s = 1 THEN "BUY" ELSE IF s = 2 THEN "SELL" ELSE "none"]
    /\ sigElapsed = [s \in Signals |-> FALSE]
    /\ subscribed = [u \in Users |-> TRUE]
    /\ InitRoster([c \in Creds |-> c # 1], [c \in Creds |-> TRUE])
    /\ InitEngines

NextMon ==
    \/ \E u \in Users, s \in Signals : AutoTrader_execute_signal_trade(u, s)
    \/ \E s \in Signals, side \in {"LONG", "SHORT"} : record_trade_execution(1, s, side)
    \/ \E p \in Prices : PriceMove(p)
    \/ StoreFlip
    \/ AutoTraderStep(1)
    \/ confirm_close_all_positions

SpecMon == InitMon /\ [][NextMon]_vars

\* Two monitoring engines on one Store, and positions recorded as long.
\* The engines share nothing but the Store: each is the AutoTrader of one
\* running instance of the bot.
NextRace ==
    \/ \E s \in Signals : record_trade_execution(1, s, "LONG")
    \/ \E p \in Prices : PriceMove(p)
    \/ \E e \in Procs : AutoTraderStep(e)

SpecRace == InitMon /\ [][NextRace]_vars

\* One monitoring engine on a Store that already holds open positions, one
\* more than MaxTrades: a long on the BUY signal, a short on the SELL signal,
\* in turn, as record_trade_execution writes them.  The Store answers; the
\* ticker may fail at any fetch.
RECURSIVE OpenTable(_)
OpenTable(n) ==
    IF n = 0 THEN << >>
    ELSE LET s == ((n - 1) % 2) + 1
         IN  record_trade_execution_row(OpenTable(n - 1), 1, s,
                                        IF s = 1 THEN "LONG" ELSE "SHORT",
                                        entry_price(s),
                                        Quantity(CHOOSE b \in Balances : TRUE, s))

InitReprice ==
    /\ sigStatus = [s \in Signals |-> IF s \in {1, 2} THEN "pending" ELSE "none"]
    /\ sigType = [s \in Signals |-> IF s = 1 THEN "BUY" ELSE IF s = 2 THEN "SELL" ELSE "none"]
    /\ sigElapsed = [s \in Signals |-> FALSE]
    /\ subscribed = [u \in Users |-> TRUE]
    /\ InitRoster([c \in Creds |-> c # 1], [c \in Creds |-> TRUE])
    /\ InitEnginesWith(OpenTable(MaxTrades + 1))

NextReprice ==
    \/ \E p \in Prices : PriceMove(p)
    \/ AutoTraderStep(1)

SpecReprice == InitReprice /\ [][NextReprice]_vars

\* Both loops, as app.py starts them, on a Store that answers and holds two
\* pending signals and MaxTrades + 1 open positions; shutdown can be
\* requested for either at any moment it can run.
NextStop ==
    \/ \E p \in Prices : PriceMove(p)
    \/ SignalProcessorStep(1)
    \/ AutoTraderStep(1)
    \/ stop_monitoring(1)
    \/ stop_trading_engine(1)
    \/ start_monitoring_return(1)
    \/ start_trading_engine_return(1)

SpecStop ==
    /\ InitReprice
    /\ [][NextStop]_vars
    /\ WF_vars(SignalProcessorStep(1) \/ start_monitoring_return(1))
    /\ WF_vars(AutoTraderStep(1) \/ start_trading_engine_return(1))

\* The ticker fetch of update_trade_pnl for the trade at the head of the list
\* never returns.  No call of the repository is wrapped in a timeout, so the
\* await of auto_trader.py:58 (futures_trader.py:188) waits for ever.
fetch_ticker_hangs(e) ==
    /\ atPc[e] = "monitor"
    /\ open_trades[e] # NoSeq
    /\ atPc' = [atPc EXCEPT ![e] = "awaiting"]
    /\ UNCHANGED <<open_trades, price, adminTally>>
    /\ UNCHANGED <<sigVars, storeUp, spVars, rosterVars, orderVars, posVars>>

\* Both loops on a Store that answers, with MaxTrades + 1 open positions and
\* an exchange that may leave one ticker fetch unanswered.  Each loop takes
\* its next step whenever it has one.
NextHang ==
    \/ \E p \in Prices : PriceMove(p)
    \/ SignalProcessorStep(1)
    \/ AutoTraderStep(1)
    \/ fetch_ticker_hangs(1)

SpecHang ==
    /\ InitReprice
    /\ [][NextHang]_vars
    /\ WF_vars(SignalProcessorStep(1))
    /\ WF_vars(AutoTraderStep(1))

\* One distribution engine and one monitoring engine, as app.py starts them,
\* on a Store that holds two pending signals and one open position
\* and that goes down and comes back at any moment.  Each loop runs its
\* next statement after every sleep, so each engine takes a step whenever
\* it can.
NextOutage ==
    \/ StoreFlip
    \/ \E p \in Prices : PriceMove(p)
    \/ SignalProcessorStep(1)
    \/ AutoTraderStep(1)

InitOutage ==
    /\ sigStatus = [s \in Signals |-> IF s \in {1, 2} THEN "pending" ELSE "none"]
    /\ sigType = [s \in Signals |-> IF s = 1 THEN "BUY" ELSE IF s = 2 THEN "SELL" ELSE "none"]
    /\ sigElapsed = [s \in Signals |-> FALSE]
    /\ subscribed = [u \in Users |-> TRUE]
    /\ InitRoster([c \in Creds |-> c # 1], [c \in Creds |-> TRUE])
    /\ InitEnginesWith(OpenTable(1))

SpecOutage ==
    /\ InitOutage
    /\ [][NextOutage]_vars
    /\ WF_vars(SignalProcessorStep(1))
    /\ WF_vars(AutoTraderStep(1))

\* One distribution engine on a Store that answers, while credentials are
\* switched off: exchanges.auto_trade or exchanges.is_active of a row is set
\* to 0.  No statement of the repository writes either column after
\* add_exchange; the rows are changed on the shared Store from outside.
auto_trade_off(c) ==
    /\ autoTrade[c]
    /\ autoTrade' = [autoTrade EXCEPT ![c] = FALSE]
    /\ UNCHANGED <<subscribed, isActive, decryptable>>
    /\ UNCHANGED <<sigVars, storeUp, spVars, orderVars, posVars, monVars>>

deactivate(c) ==
    /\ isActive[c]
    /\ isActive' = [isActive EXCEPT ![c] = FALSE]
    /\ UNCHANGED <<subscribed, autoTrade, decryptable>>
    /\ UNCHANGED <<sigVars, storeUp, spVars, orderVars, posVars, monVars>>

NextToggle ==
    \/ LoopNext
    \/ \E c \in Creds : auto_trade_off(c)
    \/ \E c \in Creds : deactivate(c)

SpecToggle == Init /\ [][NextToggle]_vars /\ WF_vars(SignalProcessorStep(1))

\* One pass of the for loop of AutoTrader.execute_signal_trade (lines
\* 155-177) for a credential with auto_trade: execute_trade, and create_trade
\* when it reports success.
AutoTrader_execute_trade_step ==
    /\ storeUp
    /\ trade_input \in TradeInputs
    /\ autoTrade[trade_input.c]
    /\ exchange_calls = NoSeq
    /\ LET x == trade_input
           r == execute_trade_for(x)
       IN  /\ trade_result' = r
           /\ exchange_calls' = execute_trade_calls(x)
                                  \o (IF r.success THEN <<"create_trade">> ELSE << >>)
           /\ trades' = IF r.success
                         THEN create_trade(trades, x.c, x.s, sigType[x.s],
                                           r.entry_price, r.quantity)
                         ELSE trades
           /\ attempted' = attempted \cup {<<x.s, x.c>>}
           /\ orders' = IF r.success THEN orders \cup {<<x.s, x.c>>} ELSE orders
    /\ UNCHANGED <<trade_input, appVars, now, close_errors, closing_orders>>
    /\ UNCHANGED <<sigVars, storeUp, spVars, rosterVars, monVars>>

\* The order chain on its own: one call of execute_trade for every input of
\* TradeInputs, on the tables the monitoring engines start from.
InitTrade ==
    /\ sigStatus = [s \in Signals |-> IF s \in {1, 2} THEN "pending" ELSE "none"]
    /\ sigType = [s \in Signals |-> IF s = 1 THEN "BUY" ELSE IF s = 2 THEN "SELL" ELSE "none"]
    /\ sigElapsed = [s \in Signals |-> FALSE]
    /\ subscribed = [u \in Users |-> TRUE]
    /\ InitRoster([c \in Creds |-> c # 1], [c \in Creds |-> TRUE])
    /\ \E x \in TradeInputs : InitEnginesFor(<< >>, x, NoSeq)

NextTrade == AutoTrader_execute_trade_step

SpecTrade == InitTrade /\ [][NextTrade]_vars

\* ------------------------------------------------------ ExchangeAuthManager
\* The master secrets a process can be started with (Config.ENCRYPTION_KEY),
\* the credentials a user can enter (the passphrase may be empty), and the
\* random initialisation vectors Fernet draws for a token.
MasterKeys == {"k1", "k2"}
ApiKeys == {"ak", "AK"}
ApiSecrets == {"sk", "SK"}
Passphrases == {"", "pp"}
IVs == {1, 2}

\* str.encode(): the bytes of a string; bytes.decode(): the string of bytes.
encode(str) == [kind |-> "bytes", key |-> "", iv |-> 0, data |-> str]
decode(bytes) == bytes.data

\* b'', the value stored for a missing passphrase.
EmptyBytes == encode("")

\* Python's truth value of a str or bytes object: false when it is empty.
Truthy(bytes) == ~(bytes.kind = "bytes" /\ bytes.data = "")

\* Fernet.encrypt: a token holding the data under the instance's key and a
\* fresh initialisation vector.
Fernet_encrypt(key, iv, bytes) ==
    [kind |-> "token", key |-> key, iv |-> iv, data |-> bytes.data]

\* Fernet.decrypt: the data of a token made with the same key; InvalidToken
\* for anything else, the empty bytes included.
Fernet_decrypt(key, token) ==
    IF token.kind = "token" /\ token.key = key
    THEN [ok |-> TRUE, value |-> encode(token.data)]
    ELSE [ok |-> FALSE, value |-> EmptyBytes]

\* encrypt_credentials (lines 43-54): the passphrase is encrypted only when
\* it is not empty, b'' otherwise.
encrypt_credentials(key, ivs, x) ==
    <<Fernet_encrypt(key, ivs[1], encode(x[1])),
      Fernet_encrypt(key, ivs[2], encode(x[2])),
      IF Truthy(encode(x[3])) THEN Fernet_encrypt(key, ivs[3], encode(x[3]))
                              ELSE EmptyBytes>>

\* A decrypt_credentials that hands the stored passphrase to Fernet whatever
\* it is.
decrypt_credentials_no_sentinel(key, e) ==
    LET k == Fernet_decrypt(key, e[1])
        s == Fernet_decrypt(key, e[2])
        p == Fernet_decrypt(key, e[3])
    IN  IF k.ok /\ s.ok /\ p.ok
        THEN [ok |-> TRUE, value |-> <<decode(k.value), decode(s.value), decode(p.value)>>]
        ELSE [ok |-> FALSE, value |-> << >>]

\* decrypt_credentials (lines 56-67): the stored passphrase is decrypted
\* only when it is not empty, '' otherwise; any InvalidToken is raised on.
decrypt_credentials(key, e) ==
    LET k == Fernet_decrypt(key, e[1])
        s == Fernet_decrypt(key, e[2])
        p == IF Truthy(e[3]) THEN Fernet_decrypt(key, e[3])
                             ELSE [ok |-> TRUE, value |-> EmptyBytes]
    IN  IF k.ok /\ s.ok /\ p.ok
        THEN [ok |-> TRUE, value |-> <<decode(k.value), decode(s.value), decode(p.value)>>]
        ELSE [ok |-> FALSE, value |-> << >>]

\* The connect handler: the credentials the user typed are encrypted under
\* the process's master secret and stored with add_exchange; the handler
\* returns and its local variables, which held the typed words, are gone.
connect_exchange ==
    /\ vault # NoSeq
    /\ vault.pc = "entered"
    /\ \E ivs \in [1..3 -> IVs] :
          vault' = [vault EXCEPT !.stored = encrypt_credentials(vault.key, ivs, vault.x),
                                 !.stored_key = vault.key,
                                 !.locals = {},
                                 !.pc = "stored"]
    /\ UNCHANGED <<sigVars, storeUp, spVars, rosterVars, attempted, orders, chainVars,
                   vaultTail, posVars, monVars>>

\* The process is started again with another ENCRYPTION_KEY.
restart_with_key ==
    /\ vault # NoSeq
    /\ vault.pc = "stored"
    /\ \E k \in MasterKeys \ {vault.key} : vault' = [vault EXCEPT !.key = k]
    /\ UNCHANGED <<sigVars, storeUp, spVars, rosterVars, attempted, orders, chainVars,
                   vaultTail, posVars, monVars>>

\* execute_trade's first statement: the stored credentials are decrypted
\* into local variables (nothing when decrypt_credentials raises).
read_credentials ==
    /\ vault # NoSeq
    /\ vault.pc = "stored"
    /\ LET r == decrypt_credentials(vault.key, vault.stored)
       IN  vault' = [vault EXCEPT !.read = r,
                                  !.locals = IF r.ok THEN {<<"execute_trade", r.value>>}
                                                     ELSE {},
                                  !.pc = "read"]
    /\ UNCHANGED <<sigVars, storeUp, spVars, rosterVars, attempted, orders, chainVars,
                   vaultTail, posVars, monVars>>

\* An execute_trade that keeps the client it built, which carries the
\* decrypted credentials, in self.exchanges.
exchanges_after_trade_cached(cache, credentials) == cache \cup credentials

\* FuturesTrader.exchanges after one execute_trade: the dictionary is
\* created empty (line 13) and no statement writes to it; the client built
\* at lines 73-78 is a local variable.
exchanges_after_trade(cache, credentials) == cache

\* execute_trade returns, by either return statement: its local variables,
\* the decrypted credentials and the client built from them, are gone.
execute_trade_returns ==
    /\ vault # NoSeq
    /\ vault.pc = "read"
    /\ vault' = [vault EXCEPT
                    !.exchanges = exchanges_after_trade(vault.exchanges, vault.locals),
                    !.locals = {},
                    !.read = [ok |-> vault.read.ok, value |-> << >>],
                    !.pc = "returned"]
    /\ UNCHANGED <<sigVars, storeUp, spVars, rosterVars, attempted, orders, chainVars,
                   vaultTail, posVars, monVars>>

\* The vault on its own: every triple a user can enter, under every master
\* secret.
InitVault ==
    /\ sigStatus = [s \in Signals |-> "none"]
    /\ sigType = [s \in Signals |-> "none"]
    /\ sigElapsed = [s \in Signals |-> FALSE]
    /\ subscribed = [u \in Users |-> TRUE]
    /\ InitRoster([c \in Creds |-> TRUE], [c \in Creds |-> TRUE])
    /\ \E k \in MasterKeys, a \in ApiKeys, b \in ApiSecrets, c \in Passphrases :
          InitEnginesFor(<< >>, NoSeq,
                         [key |-> k, x |-> <<a, b, c>>, stored |-> << >>,
                          stored_key |-> k, read |-> [ok |-> FALSE, value |-> << >>],
                          locals |-> {<<"handle_credentials", <<a, b, c>>>>},
                          exchanges |-> {},
                          pc |-> "entered"])

NextVault ==
    \/ connect_exchange
    \/ restart_with_key
    \/ read_credentials
    \/ execute_trade_returns

SpecVault == InitVault /\ [][NextVault]_vars

\* ================================================================ properties
\* A (user, credential) pair the fan-out of a signal is meant to reach.
EligiblePair(c) == subscribed[owner[c]] /\ isActive[c] /\ autoTrade[c]

\* Engine p is in the fan-out of signal s.
Executing(p, s) ==
    /\ spPc[p] = "fanout"
    /\ pending_signals[p] # NoSeq
    /\ Head(pending_signals[p]) = s

\* The open positions stored for signal s.
PositionsOf(s) ==
    {i \in DOMAIN trades : trades[i].signal_id = s /\ trades[i].status = "open"}

\* C1: a cycle that is fanning a Signal out has claimed it first (the row is
\* in status processing), and no other cycle is fanning the same Signal out.
C1_ClaimedByOneCycle ==
    \A p \in Procs, s \in Signals :
        Executing(p, s) =>
            /\ sigStatus[s] = "processing"
            /\ \A q \in Procs \ {p} : ~Executing(q, s)

\* C2: whenever the status of a stored Signal changes, it moves along
\* pending -> processing, processing -> processed or pending -> expired.
C2_StatusMovesAlongEdges ==
    [][\A s \in Signals :
          (sigStatus[s] # "none" /\ sigStatus'[s] # sigStatus[s])
              => <<sigStatus[s], sigStatus'[s]>> \in
                    {<<"pending", "processing">>, <<"processing", "processed">>,
                     <<"pending", "expired">>}]_vars

\* C3: every stored Signal, the ones create_signal stored included, is in one
\* of the statuses pending, processing, processed, expired; a created Signal
\* starts as pending, the only status a polling cycle fetches.
C3_CreatedSignalIsPending ==
    \A s \in Signals :
        sigStatus[s] \in {"none", "pending", "processing", "processed", "expired"}

C5_PositionPerFilledOrder ==
    \A s \in Signals :
        sigStatus[s] = "processed" =>
            Cardinality(PositionsOf(s)) =
                Cardinality({c \in Creds : EligiblePair(c) /\ decryptable[c]})

\* C6: no order is placed with a credential that fails to decrypt, and once
\* a Signal is processed every eligible pair has been attempted.
C6_EveryPairAttempted ==
    /\ \A s \in Signals, c \in Creds : <<s, c>> \in orders => decryptable[c]
    /\ \A s \in Signals :
           sigStatus[s] = "processed" =>
               \A c \in Creds : EligiblePair(c) => <<s, c>> \in attempted

\* C7: no Signal is fanned out more than once.
C7_FannedOutOnce == \A s \in Signals : fanouts[s] <= 1

\* C8: nothing is written to the status or closed_at of a closed Position:
\* what the first closer wrote stays.
C8_OneCloseWins ==
    [][\A i \in DOMAIN trades :
          trades[i].status = "closed" =>
              /\ trades'[i].status = "closed"
              /\ trades'[i].closed_at = trades[i].closed_at]_vars

\* C9: the current_price and pnl of a closed Position are not modified.
C9_NoRepriceAfterClose ==
    [][\A i \in DOMAIN trades :
          trades[i].status = "closed" =>
              /\ trades'[i].current_price = trades[i].current_price
              /\ trades'[i].pnl = trades[i].pnl]_vars

\* C10: an open Position that create_trade stored and that has been repriced
\* carries pnl = (current - entry) * quantity when it is long (side BUY) and
\* (entry - current) * quantity when it is short (side SELL).
C10_PnlFormula ==
    \A i \in DOMAIN trades :
        LET t == trades[i]
        IN  (t.status = "open" /\ t.side \in {"BUY", "SELL"} /\ t.current_price # NULL)
                => t.pnl = IF t.side = "BUY"
                           THEN (t.current_price - t.entry_price) * t.quantity
                           ELSE (t.entry_price - t.current_price) * t.quantity

\* A Position is long when its side is the one create_trade stores for a
\* LONG or BUY action (or the word LONG itself), short otherwise.
IsLong(t) == t.side \in {"BUY", "LONG"}
IsShort(t) == t.side \in {"SELL", "SHORT"}

\* C11: when check_stop_losses looks at an open Position and the ticker
\* answers, a long Position is closed if the price is at or below its
\* stop_loss and stays open if it is above; a short Position is closed if the
\* price is at or above its stop_loss and stays open if it is below.
C11_StopLossTrigger ==
    [][\A e \in Procs :
          (StopLossStep(e, TRUE) /\ storeUp) =>
              LET id == Head(open_trades[e])
                  t == trades[id]
                  sl == stop_loss(t.signal_id)
                  closes == (IsLong(t) /\ price <= sl) \/ (IsShort(t) /\ price >= sl)
              IN  t.status = "open" =>
                      trades'[id].status = IF closes THEN "closed" ELSE "open"]_vars

\* C12: when check_take_profits looks at an open Position and the ticker
\* answers, a short Position is closed if the price is at or below its
\* take_profit and stays open if it is above; a long Position is closed if
\* the price is at or above its take_profit and stays open if it is below.
C12_TakeProfitTrigger ==
    [][\A e \in Procs :
          (TakeProfitStep(e, TRUE) /\ storeUp) =>
              LET id == Head(open_trades[e])
                  t == trades[id]
                  tp == take_profit(t.signal_id)
                  closes == (IsShort(t) /\ price <= tp) \/ (IsLong(t) /\ price >= tp)
              IN  t.status = "open" =>
                      trades'[id].status = IF closes THEN "closed" ELSE "open"]_vars

\* C13: when a trigger closes a Position, the row carries a closed_at stamp
\* and the reason that fired: STOP_LOSS from check_stop_losses, TAKE_PROFIT
\* from check_take_profits.
C13_CloseReasonRecorded ==
    [][\A e \in Procs :
          /\ StopLossStep(e, TRUE) =>
                LET id == Head(open_trades[e])
                IN  (trades[id].status = "open" /\ trades'[id].status = "closed") =>
                        /\ trades'[id].closed_at # NULL
                        /\ close_reason(trades'[id]) = "STOP_LOSS"
          /\ TakeProfitStep(e, TRUE) =>
                LET id == Head(open_trades[e])
                IN  (trades[id].status = "open" /\ trades'[id].status = "closed") =>
                        /\ trades'[id].closed_at # NULL
                        /\ close_reason(trades'[id]) = "TAKE_PROFIT"]_vars

\* C14: when a trigger fires and the close fails, the row is left exactly as
\* it was (open, same current_price, pnl and closed_at); when it fires and
\* the close succeeds, the row is closed.  Each check of a later cycle
\* starts from every row that is open in the Store, so a Position whose
\* close failed is evaluated again.
OpenIds == {i \in DOMAIN trades : trades[i].status = "open"}

SeqRange(q) == {q[i] : i \in DOMAIN q}

C14_FailedCloseRetried ==
    [][\A e \in Procs :
          /\ StopLossStep(e, TRUE) =>
                LET id == Head(open_trades[e])
                IN  (trades[id].status = "open" /\ stop_loss_hit(trades[id], price)) =>
                        IF storeUp THEN trades'[id].status = "closed"
                                   ELSE trades'[id] = trades[id]
          /\ TakeProfitStep(e, TRUE) =>
                LET id == Head(open_trades[e])
                IN  (trades[id].status = "open" /\ take_profit_hit(trades[id], price)) =>
                        IF storeUp THEN trades'[id].status = "closed"
                                   ELSE trades'[id] = trades[id]
          /\ ((check_stop_losses(e) \/ check_take_profits(e)) /\ storeUp) =>
                SeqRange(open_trades'[e]) = OpenIds]_vars

\* A Position whose close failed once and that a later evaluation closed.
C14_Witness ==
    \E id \in close_errors : trades[id].status = "closed" /\ trades[id].closed_at # NULL

\* C15: the admin emergency close over the N open Positions reports
\* closed + failed = N, closed is the number of those Positions that are
\* closed in the Store afterwards, every other one is still open, and a
\* Position is counted as failed only when the adapter failed to close it.
C15_AdminTally ==
    [][confirm_close_all_positions =>
          LET was == OpenIds
              nowClosed == {i \in was : trades'[i].status = "closed"}
          IN  /\ adminTally'[1] + adminTally'[2] = Cardinality(was)
              /\ adminTally'[1] = Cardinality(nowClosed)
              /\ \A i \in was \ nowClosed : trades'[i].status = "open"
              /\ FuturesTrader_close_position.success => adminTally'[2] = 0]_vars

\* C16: a Position goes from open to closed only when an order closing it
\* (opposite side, full quantity) has been placed on the exchange.
C16_ClosedOnlyAfterOrder ==
    [][\A id \in DOMAIN trades :
          (trades[id].status = "open" /\ trades'[id].status = "closed") =>
              id \in closing_orders']_vars

\* C17: every monitoring cycle starts from every open Position, and for each
\* of them whose ticker fetch returns a price the row's current_price and pnl
\* are written, whether or not the price is at a stop-loss or take-profit.
C17_RepricePersisted ==
    [][\A e \in Procs :
          /\ (monitor_positions(e) /\ storeUp) => SeqRange(open_trades'[e]) = OpenIds
          /\ (RepriceStep(e, TRUE) /\ storeUp) =>
                LET id == Head(open_trades[e])
                IN  /\ trades'[id].current_price = price
                    /\ trades'[id].pnl = unrealized_pnl(trades[id], price)]_vars

\* An open Position repriced at a price that fires neither trigger.
C17_Witness ==
    \E id \in DOMAIN trades :
        /\ trades[id].status = "open"
        /\ trades[id].side \in {"LONG", "SHORT"}
        /\ trades[id].current_price = price
        /\ ~stop_loss_hit(trades[id], price)
        /\ ~take_profit_hit(trades[id], price)

\* C18: a reprice whose ticker fetch fails writes nothing and leaves the
\* cycle where it was, with the rest of the open Positions still to be
\* repriced, and they are repriced when their own fetch succeeds; the next
\* cycle starts again from every Position that is open, the one that failed
\* included.
C18_FailedRepriceRetried ==
    [][\A e \in Procs :
          /\ RepriceStep(e, FALSE) =>
                /\ trades' = trades
                /\ atPc'[e] = "monitor"
                /\ open_trades'[e] = Tail(open_trades[e])
          /\ (RepriceStep(e, TRUE) /\ storeUp) =>
                trades'[Head(open_trades[e])].current_price = price
          /\ (monitor_positions(e) /\ storeUp) =>
                open_trades'[e] = SortedSeqDesc(OpenIds)]_vars

\* In the middle of a cycle: a Position whose reprice failed (it was ahead in
\* the list and has no price yet), and another one still to be repriced.
C18_Witness ==
    /\ atPc[1] = "monitor"
    /\ open_trades[1] # NoSeq
    /\ \E id \in DOMAIN trades :
          /\ id > Head(open_trades[1])
          /\ trades[id].status = "open"
          /\ trades[id].current_price = NULL

\* C19: with the Store failing at any moment, neither loop ever leaves its
\* while, and each loop comes back to its sleep again and again: a Store
\* error costs at most the iteration it happened in.
C19_LoopsOutliveStoreErrors ==
    /\ [](spPc[1] # "stopped" /\ atPc[1] # "stopped")
    /\ []<>(spPc[1] = "sleep")
    /\ []<>(atPc[1] = "sleep")

\* Both loops back at their sleep after a Store error in an iteration of
\* each: a signal that was fanned out and could not be marked processed,
\* and a position whose close could not be written.
C19_Witness ==
    /\ spPc[1] = "sleep"
    /\ atPc[1] = "sleep"
    /\ \E s \in Signals : sigStatus[s] = "pending" /\ fanouts[s] >= 1
    /\ close_errors # {}

\* C20: the engine takes the Signals of a cycle oldest first, one after the
\* other: its list is in creation order, and while it hands the subscribers
\* of Signal B to execute_signal_trade no Signal created before B is still
\* pending and unexpired, so every hand-over for an older Signal of the cycle
\* came before the first one for B.
C20_OldestFirst ==
    /\ \A i, j \in DOMAIN pending_signals[1] :
          i < j => pending_signals[1][i] < pending_signals[1][j]
    /\ \A B \in Signals :
          Executing(1, B) => \A A \in Signals : A < B => ~IsPendingRow(A)

C22_ExpiredEventually ==
    \A s \in Signals :
        (/\ sigStatus[s] = "pending"
         /\ sigElapsed[s]
         /\ \A p \in Procs : s \notin SeqRange(pending_signals[p]))
            ~> (sigStatus[s] = "expired")

\* C24: while the engine is in the fan-out of a Signal and a user's turn is
\* still ahead, each of the user's credentials that is active with
\* auto_trade on (and so was when the roster was read, since credentials are
\* only switched off) gets its order, whatever is switched off afterwards.
C24_EligibleAtFetchGetsOrder ==
    \A s \in Signals, c \in Creds :
        (/\ Executing(1, s)
         /\ owner[c] \in SeqRange(subscribers[1])
         /\ EligiblePair(c)
         /\ decryptable[c])
            ~> (<<s, c>> \in orders)

\* The position of a call in the log of one execute_trade, 0 when it was
\* not made.
CallIndex(calls, name) ==
    IF \E i \in 1..Len(calls) : calls[i] = name
    THEN CHOOSE i \in 1..Len(calls) : calls[i] = name
    ELSE 0

\* Both calls were made and the first came before the second.
CalledBefore(calls, a, b) ==
    /\ CallIndex(calls, a) > 0
    /\ CallIndex(calls, a) < CallIndex(calls, b)

\* C25: one execution runs decrypt, balance, set leverage, market order,
\* stop-loss and take-profit (each only when the signal has one), persist
\* position, in that order; a failed decrypt is followed by no exchange call;
\* no risk order and no position without a successful market order.
C25_ChainOrder ==
    exchange_calls # NoSeq =>
        LET calls == exchange_calls
            x == trade_input
            made(n) == CallIndex(calls, n) > 0
        IN  /\ calls[1] = "decrypt_credentials"
            /\ ~decryptable[x.c] => Len(calls) = 1
            /\ decryptable[x.c] =>
                   /\ CalledBefore(calls, "decrypt_credentials", "fetch_balance")
                   /\ CalledBefore(calls, "fetch_balance", "set_leverage")
                   /\ CalledBefore(calls, "set_leverage", "create_market_order")
            /\ made("set_stop_loss") <=>
                   (decryptable[x.c] /\ x.order_ok /\ x.has_stop_loss)
            /\ made("set_take_profit") <=>
                   (decryptable[x.c] /\ x.order_ok /\ x.has_take_profit)
            /\ made("set_stop_loss") =>
                   CalledBefore(calls, "create_market_order", "set_stop_loss")
            /\ made("set_take_profit") =>
                   CalledBefore(calls, "create_market_order", "set_take_profit")
            /\ (made("set_stop_loss") /\ made("set_take_profit")) =>
                   CalledBefore(calls, "set_stop_loss", "set_take_profit")
            /\ made("create_trade") <=> (decryptable[x.c] /\ x.order_ok)
            /\ made("create_trade") =>
                   /\ calls[Len(calls)] = "create_trade"
                   /\ Len(trades) = 1
            /\ ~made("create_trade") => Len(trades) = 0

\* The whole chain has run for a signal with both risk levels.
C25_Witness ==
    exchange_calls = <<"decrypt_credentials", "fetch_balance", "set_leverage",
                       "create_market_order", "set_stop_loss",
                       "set_take_profit", "create_trade">>

\* One of set_leverage, set_stop_loss, set_take_profit was called in this
\* execution and the exchange refused it.
RiskCallFailed ==
    /\ exchange_calls # NoSeq
    /\ \/ CallIndex(exchange_calls, "set_leverage") > 0 /\ ~trade_input.leverage_ok
       \/ CallIndex(exchange_calls, "set_stop_loss") > 0 /\ ~trade_input.stop_loss_ok
       \/ CallIndex(exchange_calls, "set_take_profit") > 0 /\ ~trade_input.take_profit_ok

\* C26: when setting the leverage, the stop-loss or the take-profit fails
\* after the market order went through, the order stays (nothing cancels
\* it), the execution reports success and an open position is recorded.
C26_NoRollback ==
    (/\ RiskCallFailed
     /\ decryptable[trade_input.c]
     /\ trade_input.order_ok)
        => /\ trade_result.success
           /\ <<trade_input.s, trade_input.c>> \in orders
           /\ SeqRange(exchange_calls) \subseteq
                  {"decrypt_credentials", "fetch_balance", "set_leverage",
                   "create_market_order", "set_stop_loss", "set_take_profit",
                   "create_trade"}
           /\ Len(trades) = 1
           /\ trades[1].status = "open"
           /\ trades[1].signal_id = trade_input.s
           /\ trades[1].exchange = trade_input.c

\* The stop-loss was refused after a filled market order, and the position
\* is on record.
C26_Witness ==
    /\ exchange_calls # NoSeq
    /\ CallIndex(exchange_calls, "set_stop_loss") > 0
    /\ ~trade_input.stop_loss_ok
    /\ Len(trades) = 1
    /\ trades[1].status = "open"

\* The input of this execution with the exchange accepting the leverage and
\* both risk orders.
FullyCovered(x) ==
    [x EXCEPT !.leverage_ok = TRUE, !.stop_loss_ok = TRUE, !.take_profit_ok = TRUE]

\* C27: a failure of set_leverage, set_stop_loss or set_take_profit is
\* reported to the caller: the result of an execution in which one of them
\* failed differs from the result the same execution returns when all of
\* them are accepted.
C27_RiskFailureReported ==
    (RiskCallFailed /\ trade_result.success)
        => trade_result # execute_trade_for(FullyCovered(trade_input))

\* C28: the quantity of the order is balance * position_size_percent / 100
\* * leverage / entry_price with the signal's leverage and
\* position_size_percent where the signal has them (here it has both).
C28_QuantityFromSignal ==
    (/\ exchange_calls # NoSeq
     /\ trade_result.success
     /\ trade_input.balance_ok)
        => trade_result.quantity =
               position_quantity(CHOOSE b \in Balances : TRUE,
                                 trade_input.sig_position_size_percent,
                                 trade_input.sig_leverage,
                                 entry_price(trade_input.s))

\* C29: when the balance cannot be fetched the execution stops there: no
\* market order is sent for the pair and nothing is reported as placed.
C29_NoOrderWithoutBalance ==
    (/\ exchange_calls # NoSeq
     /\ CallIndex(exchange_calls, "fetch_balance") > 0
     /\ ~trade_input.balance_ok)
        => /\ CallIndex(exchange_calls, "create_market_order") = 0
           /\ ~trade_result.success

\* C30: decrypting what encrypt_credentials produced, under the same master
\* secret, gives back the triple that was entered, the empty passphrase
\* included; the empty passphrase, and only it, is stored as the empty
\* sentinel and is read back as the empty string.
C30_RoundTrip ==
    /\ vault.pc \in {"stored", "read"} =>
           (vault.x[3] = "" <=> vault.stored[3] = EmptyBytes)
    /\ (vault.pc = "read" /\ vault.key = vault.stored_key) =>
           /\ vault.read.ok
           /\ vault.read.value = vault.x
           /\ vault.stored[3] = EmptyBytes => vault.read.value[3] = ""

\* A triple with an empty passphrase has been stored and read back under
\* the secret it was stored with.
C30_Witness ==
    /\ vault.pc = "read"
    /\ vault.key = vault.stored_key
    /\ vault.x[3] = ""
    /\ vault.stored[3] = EmptyBytes
    /\ vault.read.ok
    /\ vault.read.value = vault.x

\* C31: a process started without the master encryption secret in its
\* environment does not get past configuration validation: no
\* ExchangeAuthManager is built and no loop is started.
C31_NoStartWithoutSecret ==
    ~boot.ENCRYPTION_KEY =>
        /\ boot.pc \in {"start", "failed"}
        /\ boot.key = ""

\* C32: a /signal command with a malformed parameter (an action other than
\* BUY or SELL, a leverage outside 1..50, a size outside 1..10, a price that
\* is not a number or not positive) stores no signal row.
C32_MalformedRejected ==
    (request # NoSeq /\ request.row # NoSeq) =>
        LET a == request.args
        IN  /\ upper(a.action) \in {"BUY", "SELL"}
            /\ signal_leverage(a) \in 1..MAX_LEVERAGE
            /\ signal_size(a) \in 1..MAX_POSITION_SIZE_PERCENT
            /\ is_number(a.entry) /\ to_number(a.entry) > 0
            /\ is_number(a.sl) /\ to_number(a.sl) > 0
            /\ is_number(a.tp) /\ to_number(a.tp) > 0

\* C33: once shutdown has been requested a loop starts nothing new: the
\* distribution loop begins no signal, the monitoring loop begins no pass
\* and no reprice or close check other than the one whose exchange call was
\* awaited when the request came.
C33_NoNewWorkAfterStop ==
    [][/\ ~is_monitoring[1] => ~execute_signal(1)
       /\ ~is_trading[1] =>
              /\ ~check_stop_losses(1)
              /\ ~check_take_profits(1)
              /\ (update_trade_pnl(1) \/ stop_loss_step(1) \/ take_profit_step(1))
                     => Head(open_trades[1]) = in_flight[1]]_vars

\* C34: when one exchange call does not return, the positions behind it in
\* the monitoring cycle still get their turn: the trade that is next in the
\* list is eventually the one being processed.
C34_OthersStillProcessed ==
    \A id \in 1..(MaxTrades + 1) :
        (Len(open_trades[1]) >= 2 /\ open_trades[1][2] = id)
            ~> (open_trades[1] # NoSeq /\ Head(open_trades[1]) = id
                /\ atPc[1] # "awaiting")

\* The stored form of a field: a Fernet token, or the empty sentinel.
IsCiphertext(bytes) == bytes.kind = "token" \/ bytes = EmptyBytes

\* C35: the Store holds the credentials in encrypted form only, and outside
\* a handler or an execute_trade call nothing in the process holds them
\* decrypted: after execute_trade has returned, with a result or an error,
\* neither its local variables nor the engine's client table have them.
C35_NoPlaintextRetained ==
    /\ vault.pc # "entered" =>
           \A i \in 1..3 : IsCiphertext(vault.stored[i])
    /\ vault.pc \in {"stored", "returned"} =>
           /\ vault.locals = {}
           /\ vault.exchanges = {}
    /\ vault.pc = "returned" => vault.read.value = << >>

\* execute_trade decrypted the credentials and has returned.
C35_Witness ==
    /\ vault.pc = "returned"
    /\ vault.read.ok
    /\ vault.locals = {}
    /\ vault.exchanges = {}

\* C36: a close made by the monitoring loop stores the price the closing
\* order filled at as current_price and the realized profit or loss, entry
\* against that price times quantity and signed by side, as pnl.
C36_CloseStoresRealizedPnl ==
    [][\A id \in DOMAIN trades :
          (/\ \E tick \in BOOLEAN : StopLossStep(1, tick) \/ TakeProfitStep(1, tick)
           /\ trades[id].status = "open"
           /\ trades'[id].status = "closed")
              => /\ trades'[id].current_price = price
                 /\ trades'[id].pnl = unrealized_pnl(trades[id], price)]_vars

\* C37: a position's status is open or closed, closed_at is set exactly
\* when the status is closed, and no step takes a closed position back to
\* open.
C37_StatusLifecycle ==
    /\ [](\A i \in DOMAIN trades :
             /\ trades[i].status \in {"open", "closed"}
             /\ (trades[i].closed_at # NULL) <=> (trades[i].status = "closed"))
    /\ [][\A i \in DOMAIN trades :
             trades[i].status = "closed" =>
                 (i \in DOMAIN trades' /\ trades'[i].status = "closed")]_vars

\* A position has been closed and carries its closing time.
C37_Witness ==
    \E i \in DOMAIN trades :
        /\ trades[i].status = "closed"
        /\ trades[i].closed_at # NULL

\* C38: within one monitoring cycle a position is closed at most once: the
\* list check_take_profits works on is read after the stop-loss pass and
\* holds no position that pass closed, and every close the engine writes
\* finds its position open.
C38_ClosedOncePerCycle ==
    [][/\ check_take_profits(1) =>
              \A id \in SeqRange(open_trades'[1]) : trades[id].status = "open"
       /\ \A id \in DOMAIN trades :
              (/\ \E tick \in BOOLEAN : StopLossStep(1, tick) \/ TakeProfitStep(1, tick)
               /\ trades'[id] # trades[id])
                  => trades[id].status = "open"]_vars

\* The take-profit pass is under way with a list that leaves out a position
\* closed at the latest tick of the Store's clock.
C38_Witness ==
    /\ atPc[1] = "take_profit"
    /\ \E id \in DOMAIN trades :
          /\ trades[id].status = "closed"
          /\ trades[id].closed_at = now
          /\ id \notin SeqRange(open_trades[1])

\* C39: a callback is accepted only for a state token that was issued, has
\* not expired and was not used before; and a token a callback was accepted
\* for has no session any more, so a second callback with it is rejected.
C39_StateTokenOnce ==
    /\ \A t \in oauth.used : oauth.auth_sessions[t] = NULL
    /\ (oauth.callback # NoSeq /\ oauth.callback.accepted) =>
           /\ oauth.callback.state \in oauth.issued
           /\ ~oauth.callback.used_before
           /\ oauth.callback.at <= oauth.callback.expires_at

====
